---- MODULE Spec2Model ----
(***************************************************************************)
(* Model of the popup's share handler, src/entrypoints/popup/main.ts:      *)
(*                                                                         *)
(*   document.getElementById("share-btn")?.addEventListener("click",       *)
(*     async () => {                                                       *)
(*       const [tab] = await browser.tabs.query({active, currentWindow});  *)
(*       if (tab?.url) {                                                   *)
(*         const encodedUrl = encodeURIComponent(tab.url);                 *)
(*         const targetUrl = `https://curaq.pages.dev/share?url=${...}`;   *)
(*         await browser.tabs.create({ url: targetUrl });                  *)
(*       }                                                                 *)
(*     });                                                                 *)
(*                                                                         *)
(* A JavaScript string is a sequence of UTF-16 code units (naturals).      *)
(* An optional value (undefined or v) is a sequence of length 0 or 1.      *)
(***************************************************************************)
EXTENDS Integers, Sequences, FiniteSets

VARIABLES shareBtn, loadThrew, listeners, activeTab, clicks, pc, tab, promise, qstate, answer,
          cstate, queries, created, encPc, encIn, encTarget, encDecoded

vars == <<shareBtn, loadThrew, listeners, activeTab, clicks, pc, tab, promise, qstate, answer,
          cstate, queries, created, encPc, encIn, encTarget, encDecoded>>

handlerVars == <<shareBtn, loadThrew, listeners, activeTab, clicks, pc, tab, promise, qstate,
                 answer, cstate, queries, created>>

encVars == <<encPc, encIn, encTarget, encDecoded>>

\* the popup document and the outcome of running the script, fixed once loaded
domVars == <<shareBtn, loadThrew>>

(***************************************************************************)
(* Bounds.                                                                 *)
(***************************************************************************)
\* clicks dispatched to the button in one run
MaxClicks == 2
\* length of the generated addresses of the encoding specification
MaxLen == 2

(***************************************************************************)
(* encodeURIComponent (ECMAScript Encode with the uriUnescaped set),       *)
(* called at main.ts line 4.                                               *)
(***************************************************************************)
\* a variant of UriUnescaped: the set encodeURI leaves alone (uriReserved and
\* "#" are kept as well)
UriUnescapedOfEncodeURI ==
    (48..57) \cup (65..90) \cup (97..122)
        \cup {45, 95, 46, 33, 126, 42, 39, 40, 41}
        \cup {59, 47, 63, 58, 64, 38, 61, 43, 36, 44, 35}

\* a variant of UriUnescaped: the unreserved characters of RFC 3986 only
UriUnescapedOfRfc3986 ==
    (48..57) \cup (65..90) \cup (97..122) \cup {45, 95, 46, 126}

\* uriUnescaped: uriAlpha, DecimalDigit and the uriMark characters -_.!~*'()
UriUnescaped ==
    (48..57) \cup (65..90) \cup (97..122)
        \cup {45, 95, 46, 33, 126, 42, 39, 40, 41}

\* a variant of HexDigits with lower-case letters
HexDigitsLower ==
    <<48, 49, 50, 51, 52, 53, 54, 55, 56, 57, 97, 98, 99, 100, 101, 102>>

\* the upper-case hexadecimal digits 0-9 A-F
HexDigits == <<48, 49, 50, 51, 52, 53, 54, 55, 56, 57, 65, 66, 67, 68, 69, 70>>

\* one octet as "%XX"
PercentOctet(b) == <<37, HexDigits[(b \div 16) + 1], HexDigits[(b % 16) + 1]>>

\* CodePointAt(string, k): the code point at k, the code units it takes,
\* and whether it is an unpaired surrogate
CodePointAt(s, k) ==
    LET first == s[k] IN
    IF first < 55296 \/ first > 57343
    THEN [cp |-> first, count |-> 1, unpaired |-> FALSE]
    ELSE IF first >= 56320 \/ k + 1 > Len(s)
    THEN [cp |-> first, count |-> 1, unpaired |-> TRUE]
    ELSE IF s[k + 1] < 56320 \/ s[k + 1] > 57343
    THEN [cp |-> first, count |-> 1, unpaired |-> TRUE]
    ELSE [cp |-> (first - 55296) * 1024 + (s[k + 1] - 56320) + 65536,
          count |-> 2, unpaired |-> FALSE]

\* the UTF-8 octets of a code point
Utf8Octets(cp) ==
    IF cp < 128 THEN <<cp>>
    ELSE IF cp < 2048 THEN <<192 + (cp \div 64), 128 + (cp % 64)>>
    ELSE IF cp < 65536
    THEN <<224 + (cp \div 4096), 128 + ((cp \div 64) % 64), 128 + (cp % 64)>>
    ELSE <<240 + (cp \div 262144), 128 + ((cp \div 4096) % 64),
           128 + ((cp \div 64) % 64), 128 + (cp % 64)>>

RECURSIVE PercentOctets(_)
PercentOctets(octets) ==
    IF octets = <<>> THEN <<>>
    ELSE PercentOctet(Head(octets)) \o PercentOctets(Tail(octets))

\* a completion: a normal value, or a thrown URIError
Normal(v) == [threw |-> FALSE, value |-> v]
URIError == [threw |-> TRUE, value |-> <<>>]

\* the escape of the character at position k of s (a unit kept as it is, or
\* the percent-escaped octets of the code point starting there)
EscapeAt(s, k) ==
    IF s[k] \in UriUnescaped THEN <<s[k]>>
    ELSE PercentOctets(Utf8Octets(CodePointAt(s, k).cp))

\* the loop of Encode: k is the position in the string, R the result so far
RECURSIVE EncodeFrom(_, _, _)
EncodeFrom(s, k, R) ==
    IF k > Len(s) THEN Normal(R)
    ELSE IF s[k] \in UriUnescaped THEN EncodeFrom(s, k + 1, R \o EscapeAt(s, k))
    ELSE IF CodePointAt(s, k).unpaired THEN URIError
    ELSE EncodeFrom(s, k + CodePointAt(s, k).count, R \o EscapeAt(s, k))

encodeURIComponent(s) == EncodeFrom(s, 1, <<>>)

\* the literal of the template string at main.ts line 5:
\* "https://curaq.pages.dev/share?url="
Prefix ==
    <<104, 116, 116, 112, 115, 58, 47, 47, 99, 117, 114, 97, 113, 46, 112, 97,
      103, 101, 115, 46, 100, 101, 118, 47, 115, 104, 97, 114, 101, 63, 117,
      114, 108, 61>>

\* a variant of TargetUrl that interpolates the address without encoding it
TargetUrlRaw(url) == Normal(Prefix \o url)

\* lines 4-5: const encodedUrl = encodeURIComponent(tab.url);
\*            const targetUrl = `https://curaq.pages.dev/share?url=${encodedUrl}`
TargetUrl(url) ==
    LET encodedUrl == encodeURIComponent(url) IN
    IF encodedUrl.threw THEN URIError
    ELSE Normal(Prefix \o encodedUrl.value)

(***************************************************************************)
(* The host: the tabs the active-tab query can return.                     *)
(***************************************************************************)
\* "https://a.test/"
AddrATest == <<104, 116, 116, 112, 115, 58, 47, 47, 97, 46, 116, 101, 115, 116, 47>>

\* "https://example.com/path?a=1&b=2"
AddrPath ==
    <<104, 116, 116, 112, 115, 58, 47, 47, 101, 120, 97, 109, 112, 108, 101, 46,
      99, 111, 109, 47, 112, 97, 116, 104, 63, 97, 61, 49, 38, 98, 61, 50>>

\* "https://example.com/" followed by U+65E5 U+672C U+8A9E
AddrNihongo ==
    <<104, 116, 116, 112, 115, 58, 47, 47, 101, 120, 97, 109, 112, 108, 101, 46,
      99, 111, 109, 47, 26085, 26412, 35486>>

\* the addresses the host reports in the handler specification; the host
\* serialises a tab's URL, so each is a well-formed string (no unpaired
\* surrogate), for which line 4 does not throw
Addresses == {AddrATest, AddrPath, AddrNihongo}

\* a tab descriptor: url is optional (absent for a restricted page), and
\* may be the empty string
Tabs == {[url |-> <<>>], [url |-> << <<>> >>]} \cup {[url |-> <<u>>] : u \in Addresses}

\* the array tabs.query({active: true, currentWindow: true}) resolves with:
\* zero or one tab
QueryResults == {<<>>} \cup {<<t>> : t \in Tabs}

Inv == 1..MaxClicks

(***************************************************************************)
(* The handler.                                                            *)
(***************************************************************************)
\* a variant of LocalTab that keeps the first invocation's tab in a binding
\* shared by all invocations
CachedTab(i, result) ==
    IF i > 1 /\ tab[1] # <<>> THEN tab[1]
    ELSE IF result = <<>> THEN <<>> ELSE <<result[1]>>

\* line 2: const [tab] = ...; the binding of invocation i is the first
\* element of the array its own query resolved with, or undefined
LocalTab(i, result) == IF result = <<>> THEN <<>> ELSE <<result[1]>>

\* a variant of HasUrl that tests url !== undefined, so that "" passes
HasUrlDefined(t) == t # <<>> /\ t[1].url # <<>>

\* line 3: tab?.url is truthy: tab is defined, url is defined and not ""
HasUrl(t) == t # <<>> /\ t[1].url # <<>> /\ t[1].url[1] # <<>>

\* a variant of CreateCalls that calls tabs.create twice
CreateCallsTwice(i, targetUrl) ==
    <<[inv |-> i, url |-> targetUrl], [inv |-> i, url |-> targetUrl]>>

\* a variant of CreateCalls that skips the call when a tab was already
\* requested for the same target
CreateCallsDeduped(i, targetUrl) ==
    IF \E k \in 1..Len(created) : created[k].url = targetUrl THEN <<>>
    ELSE <<[inv |-> i, url |-> targetUrl]>>

\* line 6: the tabs.create calls one continuation makes
CreateCalls(i, targetUrl) == <<[inv |-> i, url |-> targetUrl]>>

\* a variant of Registered that binds the handler twice
RegisteredTwice(hasButton) == IF hasButton THEN 2 ELSE 0

\* line 1: the listener is registered when the share-btn element exists
\* (optional chaining on the result of getElementById)
Registered(hasButton) == IF hasButton THEN 1 ELSE 0

\* a variant of LoadScript without the optional chaining: calling
\* addEventListener on null throws a TypeError
LoadScriptUnguarded(hasButton) ==
    IF hasButton THEN [listeners |-> 1, threw |-> FALSE]
    ELSE [listeners |-> 0, threw |-> TRUE]

\* line 1 as the popup loads: getElementById("share-btn") gives the element
\* or null; on null the optional chaining skips the call and nothing is thrown
LoadScript(hasButton) == [listeners |-> Registered(hasButton), threw |-> FALSE]

HandlerInit ==
    /\ clicks = 0
    /\ pc = [i \in Inv |-> "Idle"]
    /\ tab = [i \in Inv |-> <<>>]
    /\ promise = [i \in Inv |-> "none"]
    /\ qstate = [i \in Inv |-> "none"]
    /\ answer = [i \in Inv |-> <<>>]
    /\ cstate = [i \in Inv |-> "none"]
    /\ queries = <<>>
    /\ created = <<>>

EncOff ==
    /\ encPc = "off"
    /\ encIn = <<>>
    /\ encTarget = Normal(<<>>)
    /\ encDecoded = Normal(<<>>)

Init ==
    /\ shareBtn \in BOOLEAN
    /\ listeners = LoadScript(shareBtn).listeners
    /\ loadThrew = LoadScript(shareBtn).threw
    /\ activeTab \in QueryResults
    /\ HandlerInit
    /\ EncOff

\* a variant of Click that ignores the click while an invocation is running
ClickWhenIdle ==
    /\ listeners > 0
    /\ clicks < MaxClicks
    /\ \A k \in Inv : pc[k] = "Idle"
    /\ LET i == clicks + 1 IN
        /\ clicks' = i
        /\ queries' = Append(queries, i)
        /\ qstate' = [qstate EXCEPT ![i] = "pending"]
        /\ pc' = [pc EXCEPT ![i] = "Querying"]
        /\ promise' = [promise EXCEPT ![i] = "pending"]
    /\ UNCHANGED <<listeners, activeTab, tab, answer, cstate, created>>
    /\ UNCHANGED domVars
    /\ UNCHANGED encVars

\* a click on the button: the handler runs up to its first await (line 2),
\* having called tabs.query
Click ==
    /\ listeners > 0
    /\ clicks < MaxClicks
    /\ LET i == clicks + 1 IN
        /\ clicks' = i
        /\ queries' = Append(queries, i)
        /\ qstate' = [qstate EXCEPT ![i] = "pending"]
        /\ pc' = [pc EXCEPT ![i] = "Querying"]
        /\ promise' = [promise EXCEPT ![i] = "pending"]
    /\ UNCHANGED <<listeners, activeTab, tab, answer, cstate, created>>
    /\ UNCHANGED domVars
    /\ UNCHANGED encVars

\* the query of invocation i resolves with the host's active tab and the
\* handler continues from line 2 to its next await (line 6) or to its end
QueryResolve(i) ==
    /\ qstate[i] = "pending"
    /\ qstate' = [qstate EXCEPT ![i] = "resolved"]
    /\ answer' = [answer EXCEPT ![i] = activeTab]
    /\ LET t == LocalTab(i, activeTab) IN
        /\ tab' = [tab EXCEPT ![i] = t]
        /\ IF HasUrl(t)
           THEN LET targetUrl == TargetUrl(t[1].url[1]) IN
                IF targetUrl.threw
                THEN /\ pc' = [pc EXCEPT ![i] = "Idle"]
                     /\ promise' = [promise EXCEPT ![i] = "rejected"]
                     /\ UNCHANGED <<created, cstate>>
                ELSE /\ created' = created \o CreateCalls(i, targetUrl.value)
                     /\ cstate' = [cstate EXCEPT ![i] = "pending"]
                     /\ pc' = [pc EXCEPT ![i] = "Opening"]
                     /\ promise' = promise
           ELSE /\ pc' = [pc EXCEPT ![i] = "Idle"]
                /\ promise' = [promise EXCEPT ![i] = "fulfilled"]
                /\ UNCHANGED <<created, cstate>>
    /\ UNCHANGED <<listeners, activeTab, clicks, queries>>
    /\ UNCHANGED domVars
    /\ UNCHANGED encVars

\* a variant of QueryReject that calls tabs.query once more before giving up
QueryRejectRetry(i) ==
    /\ qstate[i] = "pending"
    /\ qstate' = [qstate EXCEPT ![i] = "rejected"]
    /\ queries' = Append(queries, i)
    /\ pc' = [pc EXCEPT ![i] = "Idle"]
    /\ promise' = [promise EXCEPT ![i] = "rejected"]
    /\ UNCHANGED <<listeners, activeTab, clicks, tab, answer, cstate, created>>
    /\ UNCHANGED domVars
    /\ UNCHANGED encVars

\* the query of invocation i rejects: the await at line 2 throws, nothing
\* catches it, and the handler's promise rejects
QueryReject(i) ==
    /\ qstate[i] = "pending"
    /\ qstate' = [qstate EXCEPT ![i] = "rejected"]
    /\ pc' = [pc EXCEPT ![i] = "Idle"]
    /\ promise' = [promise EXCEPT ![i] = "rejected"]
    /\ UNCHANGED <<listeners, activeTab, clicks, tab, answer, cstate, queries, created>>
    /\ UNCHANGED domVars
    /\ UNCHANGED encVars

\* tabs.create of invocation i resolves: the handler runs off its end
CreateResolve(i) ==
    /\ cstate[i] = "pending"
    /\ cstate' = [cstate EXCEPT ![i] = "resolved"]
    /\ pc' = [pc EXCEPT ![i] = "Idle"]
    /\ promise' = [promise EXCEPT ![i] = "fulfilled"]
    /\ UNCHANGED <<listeners, activeTab, clicks, tab, qstate, answer, queries, created>>
    /\ UNCHANGED domVars
    /\ UNCHANGED encVars

\* a variant of CreateReject that calls tabs.create once more before giving up
CreateRejectRetry(i) ==
    /\ cstate[i] = "pending"
    /\ cstate' = [cstate EXCEPT ![i] = "rejected"]
    /\ created' = Append(created, [inv |-> i, url |-> Prefix])
    /\ pc' = [pc EXCEPT ![i] = "Idle"]
    /\ promise' = [promise EXCEPT ![i] = "rejected"]
    /\ UNCHANGED <<listeners, activeTab, clicks, tab, qstate, answer, queries>>
    /\ UNCHANGED domVars
    /\ UNCHANGED encVars

\* a variant of CreateReject that starts the handler over from its query
CreateRejectRestart(i) ==
    /\ cstate[i] = "pending"
    /\ cstate' = [cstate EXCEPT ![i] = "rejected"]
    /\ queries' = Append(queries, i)
    /\ qstate' = [qstate EXCEPT ![i] = "pending"]
    /\ pc' = [pc EXCEPT ![i] = "Querying"]
    /\ UNCHANGED <<listeners, activeTab, clicks, tab, promise, answer, created>>
    /\ UNCHANGED domVars
    /\ UNCHANGED encVars

\* a variant of CreateReject that catches the error and then waits for
\* something that never comes
CreateRejectStuck(i) ==
    /\ cstate[i] = "pending"
    /\ cstate' = [cstate EXCEPT ![i] = "rejected"]
    /\ UNCHANGED <<listeners, activeTab, clicks, pc, tab, promise, qstate, answer,
                   queries, created>>
    /\ UNCHANGED domVars
    /\ UNCHANGED encVars

\* tabs.create of invocation i rejects: the await at line 6 throws, nothing
\* catches it, and the handler's promise rejects
CreateReject(i) ==
    /\ cstate[i] = "pending"
    /\ cstate' = [cstate EXCEPT ![i] = "rejected"]
    /\ pc' = [pc EXCEPT ![i] = "Idle"]
    /\ promise' = [promise EXCEPT ![i] = "rejected"]
    /\ UNCHANGED <<listeners, activeTab, clicks, tab, qstate, answer, queries, created>>
    /\ UNCHANGED domVars
    /\ UNCHANGED encVars

\* the host: the user activates another tab, or the active tab navigates
HostSwitch ==
    /\ \E r \in QueryResults \ {activeTab} : activeTab' = r
    /\ UNCHANGED <<listeners, clicks, pc, tab, promise, qstate, answer, cstate, queries, created>>
    /\ UNCHANGED domVars
    /\ UNCHANGED encVars

Next ==
    \/ Click
    \/ \E i \in Inv : QueryResolve(i)
    \/ \E i \in Inv : QueryReject(i)
    \/ \E i \in Inv : CreateResolve(i)
    \/ \E i \in Inv : CreateReject(i)
    \/ HostSwitch

Spec == Init /\ [][Next]_vars

\* the host settles a call of invocation i: the promise awaited at line 2 or
\* at line 6 resolves or rejects
HostSettles(i) ==
    QueryReject(i) \/ QueryResolve(i) \/ CreateReject(i) \/ CreateResolve(i)

\* the handler with a host that settles every call it has received; each
\* invocation's calls are settled on their own, whatever the others do
FairSpec == Spec /\ \A i \in Inv : WF_vars(HostSettles(i))

(***************************************************************************)
(* The encoding on its own: lines 4-5 applied to generated addresses, and  *)
(* the receiving page reading the url parameter back.                      *)
(***************************************************************************)
\* the code units the generated addresses are made of: the reserved
\* characters :/?#[]@!$&'()*+,;= and space, "%", the double quote, unreserved
\* characters (A Z a z 0 1 4 9 - _ . ~), U+00E9, U+65E5, and the two halves
\* of the surrogate pair of U+1F600
Alphabet ==
    {58, 47, 63, 35, 91, 93, 64, 33, 36, 38, 39, 40, 41, 42, 43, 44, 59, 61, 32}
        \cup {37, 34}
        \cup {65, 90, 97, 122, 48, 49, 52, 57, 45, 95, 46, 126}
        \cup {233, 26085, 55357, 56832}

\* "%41", "a+b c", "a=1&url=x#y"
SampleAddresses ==
    {<<37, 52, 49>>, <<97, 43, 98, 32, 99>>,
     <<97, 61, 49, 38, 117, 114, 108, 61, 120, 35, 121>>}

\* the non-empty addresses lines 4-5 are applied to
EncInputs ==
    UNION {[1..n -> Alphabet] : n \in 1..MaxLen}
        \cup {<<c>> : c \in 0..127}
        \cup Addresses \cup SampleAddresses

\* the value of a hexadecimal digit, or -1
HexValue(c) ==
    IF c \in 48..57 THEN c - 48
    ELSE IF c \in 65..70 THEN c - 55
    ELSE IF c \in 97..102 THEN c - 87
    ELSE -1

\* the octet written "%XX" at position k of s, or -1
OctetAt(s, k) ==
    IF k + 2 <= Len(s) /\ s[k] = 37 /\ HexValue(s[k + 1]) >= 0 /\ HexValue(s[k + 2]) >= 0
    THEN 16 * HexValue(s[k + 1]) + HexValue(s[k + 2])
    ELSE -1

\* the number of octets of the UTF-8 sequence that starts with octet b, or 0
Utf8Length(b) ==
    IF b < 128 THEN 1
    ELSE IF b \in 192..223 THEN 2
    ELSE IF b \in 224..239 THEN 3
    ELSE IF b \in 240..247 THEN 4
    ELSE 0

\* the code point of a UTF-8 sequence, or -1 when it is not well formed
Utf8CodePoint(o) ==
    LET n == Len(o)
        cont == \A j \in 2..n : o[j] \in 128..191
        cp == IF n = 1 THEN o[1]
              ELSE IF n = 2 THEN (o[1] - 192) * 64 + (o[2] - 128)
              ELSE IF n = 3 THEN (o[1] - 224) * 4096 + (o[2] - 128) * 64 + (o[3] - 128)
              ELSE (o[1] - 240) * 262144 + (o[2] - 128) * 4096
                       + (o[3] - 128) * 64 + (o[4] - 128)
        least == IF n = 1 THEN 0 ELSE IF n = 2 THEN 128 ELSE IF n = 3 THEN 2048 ELSE 65536
    IN  IF cont /\ cp >= least /\ cp <= 1114111 /\ cp \notin 55296..57343
        THEN cp ELSE -1

\* the UTF-16 code units of a code point
Utf16Units(cp) ==
    IF cp < 65536 THEN <<cp>>
    ELSE <<55296 + ((cp - 65536) \div 1024), 56320 + ((cp - 65536) % 1024)>>

\* decodeURIComponent (ECMAScript Decode with an empty reserved set)
RECURSIVE DecodeFrom(_, _, _)
DecodeFrom(s, k, R) ==
    IF k > Len(s) THEN Normal(R)
    ELSE IF s[k] # 37 THEN DecodeFrom(s, k + 1, Append(R, s[k]))
    ELSE LET n == IF OctetAt(s, k) < 0 THEN 0 ELSE Utf8Length(OctetAt(s, k)) IN
         IF n = 0 \/ k + 3 * n - 1 > Len(s) THEN URIError
         ELSE LET octets == [j \in 1..n |-> OctetAt(s, k + 3 * (j - 1))]
                  cp == Utf8CodePoint(octets)
              IN  IF cp < 0 THEN URIError
                  ELSE DecodeFrom(s, k + 3 * n, R \o Utf16Units(cp))

decodeURIComponent(s) == DecodeFrom(s, 1, <<>>)

\* the first position of unit c in s, or 0
RECURSIVE IndexFrom(_, _, _)
IndexFrom(s, c, k) ==
    IF k > Len(s) THEN 0
    ELSE IF s[k] = c THEN k
    ELSE IndexFrom(s, c, k + 1)

\* the query of an address: what follows the first "?" up to the first "#"
QueryOf(address) ==
    LET hash == IndexFrom(address, 35, 1)
        noFragment == IF hash = 0 THEN address ELSE SubSeq(address, 1, hash - 1)
        mark == IndexFrom(noFragment, 63, 1)
    IN  IF mark = 0 THEN <<>> ELSE SubSeq(noFragment, mark + 1, Len(noFragment))

\* the raw value of the first parameter called name in a query (pairs are
\* separated by "&", name and value by the first "="), as an optional value
RECURSIVE RawParam(_, _)
RawParam(query, name) ==
    LET amp == IndexFrom(query, 38, 1)
        pair == IF amp = 0 THEN query ELSE SubSeq(query, 1, amp - 1)
        eq == IndexFrom(pair, 61, 1)
        key == IF eq = 0 THEN pair ELSE SubSeq(pair, 1, eq - 1)
        val == IF eq = 0 THEN <<>> ELSE SubSeq(pair, eq + 1, Len(pair))
    IN  IF key = name THEN <<val>>
        ELSE IF amp = 0 THEN <<>>
        ELSE RawParam(SubSeq(query, amp + 1, Len(query)), name)

\* "url"
UrlParamName == <<117, 114, 108>>

\* what the receiving page reads: the percent-decoded url parameter of the
\* address it was opened at (a URIError when there is no such parameter)
DecodedUrlParam(address) ==
    LET raw == RawParam(QueryOf(address), UrlParamName) IN
    IF raw = <<>> THEN URIError ELSE decodeURIComponent(raw[1])

EncInit ==
    /\ shareBtn = TRUE
    /\ loadThrew = FALSE
    /\ listeners = 1
    /\ activeTab = <<>>
    /\ HandlerInit
    /\ encPc = "input"
    /\ encIn \in EncInputs
    /\ encTarget = Normal(<<>>)
    /\ encDecoded = Normal(<<>>)

\* lines 4-5 applied to the address
EncBuild ==
    /\ encPc = "input"
    /\ encTarget' = TargetUrl(encIn)
    /\ encPc' = "built"
    /\ UNCHANGED <<encIn, encDecoded>>
    /\ UNCHANGED handlerVars

\* the receiving page reads the url parameter of the target address
EncReceive ==
    /\ encPc = "built"
    /\ ~encTarget.threw
    /\ encDecoded' = DecodedUrlParam(encTarget.value)
    /\ encPc' = "received"
    /\ UNCHANGED <<encIn, encTarget>>
    /\ UNCHANGED handlerVars

EncNext == EncBuild \/ EncReceive

EncSpec == EncInit /\ [][EncNext]_vars

(***************************************************************************)
(* Properties of the handler, checked under Spec.                          *)
(***************************************************************************)
\* the number of tabs.create calls the host received from invocation i
CreatedBy(i) == Cardinality({k \in 1..Len(created) : created[k].inv = i})

\* the number of tabs.query calls the host received from invocation i
QueriedBy(i) == Cardinality({k \in 1..Len(queries) : queries[k] = i})

\* a query result without a readable address: no tab, a tab whose url is
\* absent, or a tab whose url is the empty string
NoAddress(r) == r = <<>> \/ r[1].url = <<>> \/ r[1].url = << <<>> >>

\* the address of a query result that has one
AddressOf(r) == r[1].url[1]

\* "https://curaq.pages.dev/share?url=https%3A%2F%2Fa.test%2F"
ExpectedATest ==
    <<104, 116, 116, 112, 115, 58, 47, 47, 99, 117, 114, 97, 113, 46, 112, 97,
      103, 101, 115, 46, 100, 101, 118, 47, 115, 104, 97, 114, 101, 63, 117,
      114, 108, 61, 104, 116, 116, 112, 115, 37, 51, 65, 37, 50, 70, 37, 50,
      70, 97, 46, 116, 101, 115, 116, 37, 50, 70>>

\* "https://curaq.pages.dev/share?url=
\*    https%3A%2F%2Fexample.com%2Fpath%3Fa%3D1%26b%3D2"
ExpectedPath ==
    <<104, 116, 116, 112, 115, 58, 47, 47, 99, 117, 114, 97, 113, 46, 112, 97,
      103, 101, 115, 46, 100, 101, 118, 47, 115, 104, 97, 114, 101, 63, 117,
      114, 108, 61, 104, 116, 116, 112, 115, 37, 51, 65, 37, 50, 70, 37, 50,
      70, 101, 120, 97, 109, 112, 108, 101, 46, 99, 111, 109, 37, 50, 70, 112,
      97, 116, 104, 37, 51, 70, 97, 37, 51, 68, 49, 37, 50, 54, 98, 37, 51, 68,
      50>>

\* C1: an invocation whose query resolved with no tab, or with a tab whose
\* url is absent or empty, has issued no tabs.create call, has ended, and its
\* promise is fulfilled (no error raised).
C1_NoAddressNoRequest ==
    \A i \in Inv :
        (qstate[i] = "resolved" /\ NoAddress(answer[i]))
            => /\ CreatedBy(i) = 0
               /\ pc[i] = "Idle"
               /\ promise[i] = "fulfilled"

\* each of the three no-address cases has been handled
C1_Witness ==
    /\ clicks = MaxClicks
    /\ \E i \in Inv : qstate[i] = "resolved" /\ answer[i] = << [url |-> << <<>> >>] >>
    /\ \E i \in Inv : qstate[i] = "resolved"
                        /\ (answer[i] = <<>> \/ answer[i] = << [url |-> <<>>] >>)
    /\ \A i \in Inv : promise[i] = "fulfilled"

\* C2: an invocation whose query resolved with a tab that has a non-empty url
\* has issued exactly one tabs.create call, while it waits for the call and
\* after it has ended.
C2_ExactlyOneRequest ==
    \A i \in Inv :
        (qstate[i] = "resolved" /\ ~NoAddress(answer[i])) => CreatedBy(i) = 1

\* an invocation has opened its tab and ended
C2_Witness ==
    \E i \in Inv :
        /\ qstate[i] = "resolved" /\ ~NoAddress(answer[i])
        /\ cstate[i] = "resolved" /\ promise[i] = "fulfilled"
        /\ CreatedBy(i) = 1

\* C3: the url of every tabs.create call is the literal prefix followed by
\* the URI-component encoding of the address the invocation read, and nothing
\* else; for "https://example.com/path?a=1&b=2" it is the address of the
\* spec's first scenario.
C3_TargetIsPrefixPlusEncoding ==
    \A k \in 1..Len(created) :
        LET u == AddressOf(tab[created[k].inv]) IN
        /\ Len(created[k].url) >= Len(Prefix)
        /\ SubSeq(created[k].url, 1, Len(Prefix)) = Prefix
        /\ SubSeq(created[k].url, Len(Prefix) + 1, Len(created[k].url))
              = encodeURIComponent(u).value
        /\ u = AddrPath => created[k].url = ExpectedPath

\* the address of the first scenario has been shared
C3_Witness ==
    \E k \in 1..Len(created) :
        /\ AddressOf(tab[created[k].inv]) = AddrPath
        /\ created[k].url = ExpectedPath

\* C6: two clicks whose queries both resolve with the same address, in any
\* interleaving of the two invocations, yield two tabs.create calls, one per
\* click, each with the prefix followed by the encoding of that address
\* ("https://a.test/" gives the target of the spec's fifth scenario twice);
\* a click is taken whatever the running invocations do.
C6_RapidClicksIndependent ==
    /\ \A i, j \in Inv :
        (/\ i # j
         /\ qstate[i] = "resolved" /\ ~NoAddress(answer[i])
         /\ qstate[j] = "resolved" /\ ~NoAddress(answer[j])
         /\ AddressOf(answer[i]) = AddressOf(answer[j]))
            => LET u == AddressOf(answer[i])
                   calls == {k \in 1..Len(created) : created[k].inv \in {i, j}}
               IN  /\ Cardinality(calls) = 2
                   /\ \E k \in calls : created[k].inv = i
                   /\ \E k \in calls : created[k].inv = j
                   /\ \A k \in calls :
                        /\ created[k].url = Prefix \o encodeURIComponent(u).value
                        /\ u = AddrATest => created[k].url = ExpectedATest
    /\ (listeners > 0 /\ clicks < MaxClicks) => ENABLED Click

\* both invocations wait for their tabs.create call at the same time
C6_Witness ==
    /\ pc[1] = "Opening" /\ pc[2] = "Opening"
    /\ AddressOf(answer[1]) = AddrATest /\ AddressOf(answer[2]) = AddrATest
    /\ created = <<[inv |-> 1, url |-> ExpectedATest], [inv |-> 2, url |-> ExpectedATest]>>

\* C7: an invocation whose query rejected has issued no tabs.create call,
\* has called tabs.query once only, has ended, and its promise is rejected
\* (the error is not caught).
C7_QueryFailurePropagates ==
    \A i \in Inv :
        qstate[i] = "rejected"
            => /\ CreatedBy(i) = 0
               /\ QueriedBy(i) = 1
               /\ pc[i] = "Idle"
               /\ promise[i] = "rejected"
               /\ tab[i] = <<>>

\* a query has rejected
C7_Witness ==
    \E i \in Inv : qstate[i] = "rejected" /\ promise[i] = "rejected" /\ created = <<>>

\* C8: the position of an invocation changes only Idle -> Querying (by a
\* click that starts it), Querying -> Opening (its query resolved with an
\* address), Querying -> Idle (its query resolved without an address, or
\* rejected) and Opening -> Idle.
C8_StateMachine ==
    [][\A i \in Inv :
        pc'[i] # pc[i] =>
            \/ /\ pc[i] = "Idle" /\ pc'[i] = "Querying"
               /\ clicks' = clicks + 1 /\ i = clicks'
               /\ promise[i] = "none"
            \/ /\ pc[i] = "Querying" /\ pc'[i] = "Opening"
               /\ qstate'[i] = "resolved" /\ ~NoAddress(answer'[i])
            \/ /\ pc[i] = "Querying" /\ pc'[i] = "Idle"
               /\ \/ qstate'[i] = "rejected"
                  \/ qstate'[i] = "resolved" /\ NoAddress(answer'[i])
            \/ /\ pc[i] = "Opening" /\ pc'[i] = "Idle"]_vars

\* one invocation has gone through Opening and one has ended from Querying
C8_Witness ==
    /\ \E i \in Inv : pc[i] = "Idle" /\ cstate[i] \in {"resolved", "rejected"}
    /\ \E i \in Inv : pc[i] = "Idle" /\ qstate[i] = "resolved" /\ NoAddress(answer[i])

\* C9: every started invocation has called tabs.query once itself; every
\* tabs.create call comes from an invocation whose own query has resolved
\* with an address, and its url is built from the address the host returned
\* to that invocation.
C9_OwnQueryResult ==
    /\ \A i \in Inv : i <= clicks => QueriedBy(i) = 1
    /\ \A k \in 1..Len(created) :
        LET i == created[k].inv IN
        /\ qstate[i] = "resolved"
        /\ ~NoAddress(answer[i])
        /\ created[k].url = Prefix \o encodeURIComponent(AddressOf(answer[i])).value

\* two invocations were answered with different addresses and each has
\* requested its own target
C9_Witness ==
    /\ Len(created) = 2
    /\ created[1].inv # created[2].inv
    /\ answer[created[1].inv] = << [url |-> <<AddrATest>>] >>
    /\ answer[created[2].inv] = << [url |-> <<AddrPath>>] >>
    /\ created[1].url = ExpectedATest
    /\ created[2].url = ExpectedPath

\* C10: an invocation whose tabs.create call rejected has issued that call
\* once only, has ended, and its promise is rejected; a further click is
\* still taken, and every later invocation whose query resolved with an
\* address has queried once and issued its own single tabs.create call.
C10_CreateFailureNoRetry ==
    \A i \in Inv :
        cstate[i] = "rejected"
            => /\ CreatedBy(i) = 1
               /\ pc[i] = "Idle"
               /\ promise[i] = "rejected"
               /\ clicks < MaxClicks => ENABLED Click
               /\ \A j \in Inv :
                    (j > i /\ qstate[j] = "resolved" /\ ~NoAddress(answer[j]))
                        => /\ QueriedBy(j) = 1
                           /\ CreatedBy(j) = 1
                           /\ cstate[j] # "none"

\* after a rejected tabs.create, a later invocation has opened its tab
C10_Witness ==
    /\ cstate[1] = "rejected" /\ promise[1] = "rejected"
    /\ cstate[2] = "resolved" /\ promise[2] = "fulfilled"
    /\ Len(created) = 2

(***************************************************************************)
(* Properties of the encoding, checked under EncSpec.                      *)
(***************************************************************************)
\* the encoded address inside a target address
EncodedPart(target) == SubSeq(target, Len(Prefix) + 1, Len(target))

Occurs(c, s) == \E k \in 1..Len(s) : s[k] = c

\* e is s with every unit of kept left as it is and every unit of escaped
\* replaced by "%" and the two upper-case hex digits of its code
RECURSIVE EscapedAs(_, _, _, _)
EscapedAs(s, e, kept, escaped) ==
    IF s = <<>> THEN e = <<>>
    ELSE IF Head(s) \in kept
    THEN e # <<>> /\ e[1] = Head(s) /\ EscapedAs(Tail(s), Tail(e), kept, escaped)
    ELSE /\ Head(s) \in escaped
         /\ Len(e) >= 3
         /\ e[1] = 37
         /\ HexValue(e[2]) \in 0..15 /\ e[2] \notin 97..102
         /\ HexValue(e[3]) \in 0..15 /\ e[3] \notin 97..102
         /\ 16 * HexValue(e[2]) + HexValue(e[3]) = Head(s)
         /\ EscapedAs(Tail(s), SubSeq(e, 4, Len(e)), kept, escaped)

\* A-Z a-z 0-9 - _ . ~
Rfc3986Unreserved == (48..57) \cup (65..90) \cup (97..122) \cup {45, 95, 46, 126}

\* ! ' ( ) *
Marks == {33, 39, 40, 41, 42}

\* : / ? # [ ] @ $ & + , ; = and space
EscapedReserved == {58, 47, 63, 35, 91, 93, 64, 36, 38, 43, 44, 59, 61, 32}

\* in every target address built: no unit of escaped that the address holds
\* is left in the encoded part, and an address made of units of kept and
\* escaped only is encoded unit by unit, kept units as they are and escaped
\* units as their escape
EncodingSplits(kept, escaped) ==
    (encPc # "input" /\ ~encTarget.threw)
        => LET e == EncodedPart(encTarget.value) IN
           /\ \A c \in escaped : Occurs(c, encIn) => ~Occurs(c, e)
           /\ (\A k \in 1..Len(encIn) : encIn[k] \in kept \cup escaped)
                 => EscapedAs(encIn, e, kept, escaped)

\* C4 as stated: the encoding escapes every one of : / ? # [ ] @ ! $ & ' ( )
\* * + , ; = and space, and leaves A-Z a-z 0-9 - _ . ~ unescaped.
C4_AsStated == EncodingSplits(Rfc3986Unreserved, EscapedReserved \cup Marks)

\* C4 as amended: the encoding escapes every one of : / ? # [ ] @ $ & + , ; =
\* and space, and leaves A-Z a-z 0-9 - _ . ~ and also ! ' ( ) * unescaped.
C4_EscapesReservedKeepsUnreservedAndMarks ==
    EncodingSplits(Rfc3986Unreserved \cup Marks, EscapedReserved)

\* "!:" has been encoded as "!%3A"
C4_Witness ==
    /\ encPc = "built"
    /\ encIn = <<33, 58>>
    /\ encTarget = Normal(Prefix \o <<33, 37, 51, 65>>)

\* C5: percent-decoding the url parameter of the target address built from
\* an address gives back exactly that address.
C5_RoundTrip ==
    encPc = "received" => encDecoded = Normal(encIn)

\* "a=1&url=x#y" (with "?"-free query characters "&", "=" and "#") has gone
\* through lines 4-5 and has been read back by the receiving page
C5_Witness ==
    /\ encPc = "received"
    /\ encIn = <<97, 61, 49, 38, 117, 114, 108, 61, 120, 35, 121>>
    /\ encDecoded = Normal(encIn)

\* "https://curaq.pages.dev/share?url=
\*    https%3A%2F%2Fexample.com%2F%E6%97%A5%E6%9C%AC%E8%AA%9E"
ExpectedNihongo ==
    <<104, 116, 116, 112, 115, 58, 47, 47, 99, 117, 114, 97, 113, 46, 112, 97,
      103, 101, 115, 46, 100, 101, 118, 47, 115, 104, 97, 114, 101, 63, 117,
      114, 108, 61, 104, 116, 116, 112, 115, 37, 51, 65, 37, 50, 70, 37, 50,
      70, 101, 120, 97, 109, 112, 108, 101, 46, 99, 111, 109, 37, 50, 70, 37,
      69, 54, 37, 57, 55, 37, 65, 53, 37, 69, 54, 37, 57, 67, 37, 65, 67, 37,
      69, 56, 37, 65, 65, 37, 57, 69>>

\* the UTF-8 octets a UTF-16 code unit above U+007F accounts for (each half
\* of a surrogate pair for two of the four)
OctetsOfUnit(c) == IF c < 2048 \/ c \in 55296..57343 THEN 2 ELSE 3

RECURSIVE OctetsOfUnits(_)
OctetsOfUnits(s) ==
    IF s = <<>> THEN 0 ELSE OctetsOfUnit(Head(s)) + OctetsOfUnits(Tail(s))

\* C12: an address made of non-ASCII characters is encoded as "%XX" groups
\* only, with upper-case hex digits, one group per octet of the UTF-8 form,
\* and the groups decode to the address; U+00E9 gives %C3%A9, U+65E5 gives
\* %E6%97%A5, U+1F600 gives %F0%9F%98%80, and the address of the spec's second
\* scenario gives the target stated there.
C12_NonAsciiAsUtf8UpperHex ==
    (encPc # "input" /\ ~encTarget.threw)
        => LET e == EncodedPart(encTarget.value) IN
           /\ (\A k \in 1..Len(encIn) : encIn[k] > 127)
                 => /\ Len(e) = 3 * OctetsOfUnits(encIn)
                    /\ \A k \in 1..Len(e) :
                         IF k % 3 = 1 THEN e[k] = 37
                         ELSE e[k] \in (48..57) \cup (65..70)
                    /\ decodeURIComponent(e) = Normal(encIn)
           /\ encIn = <<233>> => e = <<37, 67, 51, 37, 65, 57>>
           /\ encIn = <<26085>> => e = <<37, 69, 54, 37, 57, 55, 37, 65, 53>>
           /\ encIn = <<55357, 56832>>
                 => e = <<37, 70, 48, 37, 57, 70, 37, 57, 56, 37, 56, 48>>
           /\ encIn = AddrNihongo => encTarget.value = ExpectedNihongo

\* the address of the second scenario has been encoded
C12_Witness ==
    /\ encPc = "built"
    /\ encIn = AddrNihongo
    /\ encTarget = Normal(ExpectedNihongo)

(***************************************************************************)
(* Further properties of the handler, checked under Spec.                  *)
(***************************************************************************)
\* C13: the host has received as many tabs.query calls as clicks were
\* handled, and no more tabs.create calls than queries have resolved with a
\* non-empty address.
C13_CallCounts ==
    /\ Len(queries) = clicks
    /\ Len(created)
         <= Cardinality({i \in Inv : qstate[i] = "resolved" /\ ~NoAddress(answer[i])})

\* after all clicks: one query rejected, one resolved with an address
C13_Witness ==
    /\ clicks = MaxClicks
    /\ Len(queries) = MaxClicks
    /\ \E i \in Inv : qstate[i] = "rejected"
    /\ \E i \in Inv : qstate[i] = "resolved" /\ ~NoAddress(answer[i])
    /\ Len(created) = 1

\* the urls of the tabs.create calls of invocation i, in order
RECURSIVE UrlsFrom(_, _)
UrlsFrom(i, k) ==
    IF k > Len(created) THEN <<>>
    ELSE IF created[k].inv = i THEN <<created[k].url>> \o UrlsFrom(i, k + 1)
    ELSE UrlsFrom(i, k + 1)

\* C14: two invocations whose queries resolved with the same result have
\* issued the same tabs.create calls (the same number, with the same urls),
\* whatever the other invocation did before, including failing.
C14_OutcomeDependsOnOwnResultOnly ==
    \A i, j \in Inv :
        (qstate[i] = "resolved" /\ qstate[j] = "resolved" /\ answer[i] = answer[j])
            => UrlsFrom(i, 1) = UrlsFrom(j, 1)

\* the first invocation's tabs.create was rejected, and the second, given
\* the same address, has issued the same request
C14_Witness ==
    /\ cstate[1] = "rejected"
    /\ qstate[2] = "resolved"
    /\ answer[1] = << [url |-> <<AddrATest>>] >>
    /\ answer[2] = answer[1]
    /\ UrlsFrom(1, 1) = <<ExpectedATest>>
    /\ UrlsFrom(2, 1) = <<ExpectedATest>>

\* C15: at most one listener is registered, and only when the share-btn
\* element exists; without the element, loading the script throws nothing,
\* no listener is registered, no click is handled and the host receives no
\* tabs.query or tabs.create call.
C15_RegisteredAtMostOnce ==
    /\ listeners <= 1
    /\ listeners = 1 => shareBtn
    /\ ~shareBtn
         => /\ listeners = 0
            /\ ~loadThrew
            /\ clicks = 0
            /\ queries = <<>>
            /\ created = <<>>
            /\ \A i \in Inv : pc[i] = "Idle" /\ promise[i] = "none"

\* the popup has loaded without the element, and the host goes on (the
\* active tab has an address)
C15_Witness ==
    /\ ~shareBtn
    /\ listeners = 0
    /\ ~NoAddress(activeTab)

(***************************************************************************)
(* Termination, checked under FairSpec.                                    *)
(***************************************************************************)
\* C11: with a host that settles every call, every invocation that waits
\* at its query or at its tabs.create call eventually ends (is back to Idle
\* with its promise settled); the fairness is per invocation, so none needs a
\* step of another invocation to end.
C11_EveryInvocationFinishes ==
    \A i \in Inv :
        (pc[i] \in {"Querying", "Opening"})
            ~> (pc[i] = "Idle" /\ promise[i] \in {"fulfilled", "rejected"})

\* every click has been taken and every invocation has ended, one of them
\* after opening its tab
C11_Witness ==
    /\ clicks = MaxClicks
    /\ \A i \in Inv : pc[i] = "Idle" /\ promise[i] \in {"fulfilled", "rejected"}
    /\ \E i \in Inv : cstate[i] = "resolved"

====
